---- MODULE Spec2Model ----
(***************************************************************************)
(* A model of MultiMeshExport.py, the Fusion 360 add-in that exports the   *)
(* selected bodies of a design as STL files in one batch.                  *)
(*                                                                         *)
(* Strings are sequences of one-character strings, so that formatting,     *)
(* stripping and filtering are computed character by character.            *)
(***************************************************************************)
EXTENDS Integers, Sequences, FiniteSets, TLC

(***************************************************************************)
(* Bounds of the model.                                                    *)
(***************************************************************************)
\* longest input string given to _safe_filename in SpecSan
MaxLen == 3
\* most bodies in a design
MaxBodies == 3
\* most host and file-system calls that raise in one execution
MaxFaults == 2
\* most event handlers the list _handlers holds
MaxHandlers == 7
\* most bodies in the design of SpecReact
MaxReactBodies == 2
\* most reactions of SpecReact in which a host call raises
MaxReactFaults == 1

(***************************************************************************)
(* The state.                                                              *)
(***************************************************************************)
\* SpecSan: the argument and the result of _safe_filename
VARIABLES sanIn, sanOut, sanDone
\* the settings file of line 41; lastSaved and writeFailed record, for the
\* properties, the last value saved under each key and whether a write of
\* the file has failed
VARIABLES settingsFile, lastSaved, writeFailed
\* the design: its bodies 1..nBodies, their display names, the bodies that
\* are suppressed or invisible, and whether it is the active product
VARIABLES nBodies, bodyName, hidden, designActive
\* the inputs of the command dialog (bodySelection, selectAll, the
\* saveName_i fields of bodyListGroup, outputPath, browseFolder) and the
\* globals _updating and _custom_names of lines 28-29
VARIABLES dialogOpen, selection, selectAll, nameFields, outputPath,
          browseFolder, updating, custom_names
\* for the properties: the last text the user typed into the name field of
\* each body in the dialog session
VARIABLES typed
\* _OnInputChanged.notify taken step by step: the input whose change the
\* running reaction handles (args.input), where the reaction is (rpc), how
\* it leaves the try block, the input-changed event the host delivers
\* inside the reaction, and the events the handler has ignored
VARIABLES changed, rpc, exitPath, nested, ignored
\* the add-in: whether the host has started it, the global _ui, the length
\* of _handlers, the command definitions and the toolbar controls with
\* CMD_ID in the host, whether the host has the panel
\* SolidScriptsAddinsPanel, the last of run and stop that was called, and
\* whether the last run found a registration with CMD_ID
VARIABLES started, ui, handlers, cmdDefs, controls, panelPresent, lastCall,
          staleFound
\* the file system: the directories and the files (path -> content)
VARIABLES dirs, files
\* _OnExecute.notify: where it is (pc), its locals, the progress dialog's
\* wasCancelled and the message box it shows
VARIABLES pc, output_dir, export_jobs, cur, overwritten, exported, errors,
          cancelled, wasCancelled, message
\* for the properties: the os.remove and export calls made so far, the
\* directories and files the execution started with, where Cancel was
\* pressed, the number of raised host or file-system calls, and the
\* settings file the execution started with
VARIABLES removeLog, exportLog, startDirs, startFiles, cancelPoint, faults,
          startSettings
\* _OnValidateInputs.notify: args.areInputsValid and how the handler ended
VARIABLES areInputsValid, validation

sanVars == <<sanIn, sanOut, sanDone>>
setVars == <<settingsFile, lastSaved, writeFailed>>
designVars == <<nBodies, bodyName, hidden, designActive>>
dialogVars == <<dialogOpen, selection, selectAll, nameFields, outputPath,
                browseFolder, updating, custom_names, typed>>
reactVars == <<changed, rpc, exitPath, nested, ignored>>
addinVars == <<started, ui, handlers, cmdDefs, controls, panelPresent, lastCall,
               staleFound>>
fsVars == <<dirs, files>>
execVars == <<pc, output_dir, export_jobs, cur, overwritten, exported, errors,
              cancelled, wasCancelled, message>>
logVars == <<removeLog, exportLog, startDirs, startFiles, cancelPoint, faults,
             startSettings>>
valVars == <<areInputsValid, validation>>

vars == <<sanVars, setVars, designVars, dialogVars, fsVars, execVars, logVars,
          valVars, reactVars, addinVars>>

\* what the actions of each part leave alone
SanFrame == <<setVars, designVars, dialogVars, fsVars, execVars, logVars,
    valVars, reactVars, addinVars>>
SettingsFrame == <<sanVars, designVars, dialogVars, fsVars, execVars, logVars,
    valVars, reactVars, addinVars>>
DesignFrame == <<sanVars, setVars, dialogVars, fsVars, execVars, logVars,
    valVars, reactVars, addinVars>>
DialogFrame == <<sanVars, setVars, designVars, fsVars, execVars, logVars,
    valVars, reactVars, addinVars>>

(***************************************************************************)
(* Strings.                                                                *)
(***************************************************************************)
\* the characters of r'\/:*?"<>|' (line 84) without the last one: a mutant
IllegalCharsNoPipe == {"\\", "/", ":", "*", "?", "\"", "<", ">"}

\* the characters of r'\/:*?"<>|' (line 84)
IllegalChars == {"\\", "/", ":", "*", "?", "\"", "<", ">", "|"}

\* what str.strip() removes at both ends (the whitespace of the model)
Whitespace == {" ", "\t"}

\* the fallback literal 'body' (line 84)
BodyLiteral == <<"b", "o", "d", "y">>

\* ''.join(c for c in name if c not in r'\/:*?"<>|')
RECURSIVE StripIllegal(_)
StripIllegal(name) ==
    IF name = <<>> THEN <<>>
    ELSE IF Head(name) \in IllegalChars
         THEN StripIllegal(Tail(name))
         ELSE <<Head(name)>> \o StripIllegal(Tail(name))

\* str.lstrip()
RECURSIVE LStrip(_)
LStrip(s) ==
    IF s # <<>> /\ Head(s) \in Whitespace THEN LStrip(Tail(s)) ELSE s

\* str.rstrip()
RECURSIVE RStrip(_)
RStrip(s) ==
    IF s # <<>> /\ s[Len(s)] \in Whitespace
    THEN RStrip(SubSeq(s, 1, Len(s) - 1))
    ELSE s

\* str.strip()
Strip(s) == RStrip(LStrip(s))

\* _safe_filename(name), line 84
SafeFilename(name) ==
    LET stripped == Strip(StripIllegal(name))
    IN  IF stripped = <<>> THEN BodyLiteral ELSE stripped

\* all strings over alphabet of at most n characters
StringsUpTo(alphabet, n) == UNION {[1..k -> alphabet] : k \in 0..n}

(***************************************************************************)
(* SpecSan: _safe_filename applied to every string of a bounded set.       *)
(***************************************************************************)
\* the characters the inputs of SpecSan are made of
SanAlphabet == {"\\", "/", ":", "*", "?", "\"", "<", ">", "|", " ", "a"}

SanIdle == sanIn = <<>> /\ sanOut = <<>> /\ sanDone = FALSE

SanInit ==
    /\ sanIn \in StringsUpTo(SanAlphabet, MaxLen)
    /\ sanOut = <<>>
    /\ sanDone = FALSE

\* the call _safe_filename(sanIn)
SanApply ==
    /\ ~sanDone
    /\ sanOut' = SafeFilename(sanIn)
    /\ sanDone' = TRUE
    /\ UNCHANGED <<sanIn, SanFrame>>

(***************************************************************************)
(* Dictionaries: a Python dict is the sequence of its <<key, value>> pairs *)
(* in insertion order, which is also the order json.dump writes them in.   *)
(***************************************************************************)
DictKeys(d) == {d[i][1] : i \in 1..Len(d)}

\* d.get(k, default)
DictGet(d, k, default) ==
    IF k \in DictKeys(d)
    THEN d[CHOOSE i \in 1..Len(d) : d[i][1] = k][2]
    ELSE default

\* d[k] = v
DictSet(d, k, v) ==
    IF k \in DictKeys(d)
    THEN [i \in 1..Len(d) |-> IF d[i][1] = k THEN <<k, v>> ELSE d[i]]
    ELSE Append(d, <<k, v>>)

\* d.update(data)
RECURSIVE DictUpdate(_, _)
DictUpdate(d, data) ==
    IF data = <<>> THEN d
    ELSE DictUpdate(DictSet(d, Head(data)[1], Head(data)[2]), Tail(data))

(***************************************************************************)
(* The settings file, lines 41-62.  readable is FALSE for a file that is   *)
(* missing or does not parse as JSON; pairs are the members of its object. *)
(***************************************************************************)
NoSettingsFile == [readable |-> FALSE, pairs |-> <<>>]

\* _load_settings(), lines 45-51
LoadSettings(file) == IF file.readable THEN file.pairs ELSE <<>>

\* how the write of lines 58-62 can end: the file written, open() raising
\* (the file is left as it was), or the dump raising after open(..., 'w')
\* has truncated the file
WriteOutcomes == {"written", "open_raises", "dump_raises"}

\* a save that writes the new data alone, without the merge: a mutant
SettingsAfterSaveNoMerge(file, data, outcome) ==
    CASE outcome = "written"     -> [readable |-> TRUE, pairs |-> data]
      [] outcome = "open_raises" -> file
      [] outcome = "dump_raises" -> NoSettingsFile

\* the settings file after _save_settings(data), lines 54-62
SettingsAfterSave(file, data, outcome) ==
    LET settings == DictUpdate(LoadSettings(file), data)
    IN  CASE outcome = "written"     -> [readable |-> TRUE, pairs |-> settings]
          [] outcome = "open_raises" -> file
          [] outcome = "dump_raises" -> NoSettingsFile

\* the keys and values saved in SpecSettings
SettingsKeys == {"outputPath", "other"}
SettingsValues == {<<"A">>, <<"B">>, <<"C">>}

\* the dicts passed to _save_settings in SpecSettings: one key each, as in
\* the call of line 283
SettingsData == {<<<<k, v>>>> : k \in SettingsKeys, v \in SettingsValues}

\* the settings file a dialog session starts with
SessionSettings ==
    {NoSettingsFile, [readable |-> TRUE, pairs |-> <<<<"outputPath", <<"E">>>>>>]}

SetIdle ==
    /\ settingsFile = NoSettingsFile
    /\ lastSaved = <<>>
    /\ writeFailed = FALSE

\* a call _save_settings(data); lastSaved and writeFailed record the calls
SaveSettings ==
    \E data \in SettingsData, outcome \in WriteOutcomes :
        /\ settingsFile' = SettingsAfterSave(settingsFile, data, outcome)
        /\ lastSaved' = [k \in DOMAIN lastSaved \cup {data[1][1]} |->
                            IF k = data[1][1] THEN data[1][2] ELSE lastSaved[k]]
        /\ writeFailed' = (writeFailed \/ outcome # "written")
        /\ UNCHANGED SettingsFrame

(***************************************************************************)
(* The design.  A body is identified by its entityToken, here its index in *)
(* the order _all_bodies (lines 73-79) returns the bodies in.  The design  *)
(* does not change while the model runs; the active product may.           *)
(***************************************************************************)
Part == <<"P", "a", "r", "t">>
PartSlash == <<"P", "a", "/", "r", "t">>
Cylinder1 == <<"C", "y", "l", "i", "n", "d", "e", "r", "1">>
PartOne == <<"P", "a", "r", "t", " ", "(", "1", ")">>
Question == <<"?">>

\* the display names the designs of the model give their bodies, by token
NameCatalogue == <<Part, PartSlash, Cylinder1, Question>>

CatalogueName(b) == NameCatalogue[((b - 1) % Len(NameCatalogue)) + 1]

\* _all_bodies(design), lines 73-79
AllBodies == [i \in 1..nBodies |-> i]

DesignInit ==
    /\ nBodies \in 0..MaxBodies
    /\ bodyName = [b \in 1..nBodies |-> CatalogueName(b)]
    /\ hidden \in SUBSET (1..nBodies)
    /\ designActive = TRUE

(***************************************************************************)
(* The command dialog and the globals of lines 27-29.                      *)
(***************************************************************************)
\* _downloads_folder(), lines 68-70
DownloadsFolder == <<"D">>

\* the folders the folder dialog can return
Folders == {<<"D">>, <<"E">>}

\* the texts typed into the path field
TypedPaths == {<<>>, <<" ", "E", " ">>}

\* the texts typed into a name field
EditTexts == {PartOne, Question}

InSeq(x, s) == \E i \in 1..Len(s) : s[i] = x

RECURSIVE RemoveFrom(_, _)
RemoveFrom(s, x) ==
    IF s = <<>> THEN <<>>
    ELSE IF Head(s) = x THEN RemoveFrom(Tail(s), x)
         ELSE <<Head(s)>> \o RemoveFrom(Tail(s), x)

\* sel.addSelection(body) of line 194 inside its try/except: a suppressed or
\* invisible body raises and is skipped; a selected body is not added twice
AddSelection(sel, body) ==
    IF body \in hidden \/ InSeq(body, sel) THEN sel ELSE Append(sel, body)

\* the loop of lines 192-196
RECURSIVE AddAll(_, _)
AddAll(sel, bodies) ==
    IF bodies = <<>> THEN sel
    ELSE AddAll(AddSelection(sel, Head(bodies)), Tail(bodies))

\* a rebuild that gives every field the sanitized display name: a mutant
RebuildIgnoringCustom(sel, custom) ==
    [i \in 1..Len(sel) |->
        [label |-> bodyName[sel[i]],
         value |-> SafeFilename(bodyName[sel[i]])]]

\* _rebuild_name_list, lines 87-106: the fields saveName_0, saveName_1, ...
RebuildNameList(sel, custom) ==
    [i \in 1..Len(sel) |->
        [label |-> bodyName[sel[i]],
         value |-> IF sel[i] \in DOMAIN custom
                   THEN custom[sel[i]]
                   ELSE SafeFilename(bodyName[sel[i]])]]

\* the key of line 218 taken to be the position of the field: a mutant
NameKeyByPosition(sel, i) == i

\* the key of lines 217-218: the entityToken of the body selected at the
\* position of the edited field
NameKey(sel, i) == sel[i]

\* the value line 208 gives the select-all checkbox
SelectAllInSync(sel) == nBodies > 0 /\ Len(sel) = nBodies

DialogIdle ==
    /\ dialogOpen = FALSE
    /\ selection = <<>>
    /\ selectAll = FALSE
    /\ nameFields = <<>>
    /\ outputPath = <<>>
    /\ browseFolder = FALSE
    /\ updating = FALSE
    /\ custom_names = <<>>
    /\ typed = <<>>

\* no input-changed reaction is running
NoChange == [id |-> "none", idx |-> 0]

ReactIdle ==
    /\ changed = NoChange
    /\ rpc = "none"
    /\ exitPath = "none"
    /\ nested = "none"
    /\ ignored = <<>>

\* the add-in after run(), lines 379-403, in a host that has the panel
AddInStarted ==
    /\ started = TRUE
    /\ ui = TRUE
    /\ handlers = 1
    /\ cmdDefs = 1
    /\ controls = 1
    /\ panelPresent = TRUE
    /\ lastCall = "run"
    /\ staleFound = FALSE

\* the add-in with the command dialog open, lines 164-166
AddInWithDialog ==
    /\ started = TRUE
    /\ ui = TRUE
    /\ handlers = 4
    /\ cmdDefs = 1
    /\ controls = 1
    /\ panelPresent = TRUE
    /\ lastCall = "run"
    /\ staleFound = FALSE

\* the host runs the command: the add-in is started, its command
\* definition is registered, and no handler of the dialog is running
CommandInvoked ==
    /\ started /\ ui /\ cmdDefs > 0
    /\ ~dialogOpen
    /\ rpc = "none"

\* _OnCommandCreated.notify, lines 115-169, with no active design
CommandCreatedNoDesign ==
    /\ CommandInvoked
    /\ ~designActive
    /\ UNCHANGED <<dialogVars, DialogFrame>>

\* _OnCommandCreated.notify, lines 115-169
CommandCreated ==
    /\ CommandInvoked
    /\ designActive
    /\ handlers + 3 <= MaxHandlers
    /\ handlers' = handlers + 3
    /\ dialogOpen' = TRUE
    /\ selection' = <<>>
    /\ selectAll' = FALSE
    /\ custom_names' = <<>>
    /\ typed' = <<>>
    /\ nameFields' = <<>>
    /\ outputPath' = DictGet(LoadSettings(settingsFile), "outputPath",
                             DownloadsFolder)
    /\ browseFolder' = FALSE
    /\ UNCHANGED <<updating, sanVars, setVars, designVars, fsVars, execVars,
                   logVars, valVars, reactVars, started, ui, cmdDefs, controls,
                   panelPresent, lastCall, staleFound>>

\* the command ends (OK or Cancel): its inputs are gone, the globals stay
CloseDialog ==
    /\ dialogOpen
    /\ rpc = "none"
    /\ dialogOpen' = FALSE
    /\ selection' = <<>>
    /\ selectAll' = FALSE
    /\ nameFields' = <<>>
    /\ outputPath' = <<>>
    /\ browseFolder' = FALSE
    /\ UNCHANGED <<updating, custom_names, typed, DialogFrame>>

\* the host makes another product active, or the design again
SwitchProduct ==
    /\ rpc = "none"
    /\ designActive' = ~designActive
    /\ UNCHANGED <<nBodies, bodyName, hidden, DesignFrame>>

\* the user clicks the select-all checkbox; _OnInputChanged.notify with
\* changed.id = 'selectAll', lines 175-199 and 235-238
InputChangedSelectAll ==
    /\ dialogOpen
    /\ selectAll' = ~selectAll
    /\ IF updating
       THEN UNCHANGED <<selection, nameFields, updating>>
       ELSE /\ updating' = FALSE
            /\ IF ~designActive
               THEN UNCHANGED <<selection, nameFields>>
               ELSE /\ selection' = IF selectAll' THEN AddAll(selection, AllBodies)
                                                  ELSE <<>>
                    /\ nameFields' = RebuildNameList(selection', custom_names)
    /\ UNCHANGED <<dialogOpen, outputPath, browseFolder, custom_names, typed,
                   DialogFrame>>

\* the user picks a body that is not selected, or one that is, which
\* deselects it; _OnInputChanged.notify with changed.id = 'bodySelection',
\* lines 175-182, 202-209 and 235-238
InputChangedBodySelection ==
    /\ dialogOpen
    /\ \E b \in (1..nBodies) \ hidden :
        /\ selection' = IF InSeq(b, selection) THEN RemoveFrom(selection, b)
                                               ELSE Append(selection, b)
        /\ IF updating
           THEN UNCHANGED <<selectAll, nameFields, updating>>
           ELSE /\ updating' = FALSE
                /\ selectAll' = IF designActive THEN SelectAllInSync(selection')
                                                ELSE selectAll
                /\ nameFields' = RebuildNameList(selection', custom_names)
    /\ UNCHANGED <<dialogOpen, outputPath, browseFolder, custom_names, typed,
                   DialogFrame>>

\* the user types into the name field saveName_(i-1);
\* _OnInputChanged.notify, lines 175-182, 212-219 and 235-238
InputChangedSaveName ==
    /\ dialogOpen
    /\ \E i \in 1..Len(nameFields), text \in EditTexts :
        /\ nameFields' = [nameFields EXCEPT ![i].value = text]
        /\ typed' = IF i - 1 < Len(selection)
                    THEN [t \in DOMAIN typed \cup {selection[i]} |->
                             IF t = selection[i] THEN text ELSE typed[t]]
                    ELSE typed
        /\ IF updating
           THEN UNCHANGED <<custom_names, updating>>
           ELSE /\ updating' = FALSE
                /\ custom_names' =
                       IF i - 1 < Len(selection)
                       THEN [t \in DOMAIN custom_names \cup {NameKey(selection, i)} |->
                                IF t = NameKey(selection, i) THEN text
                                ELSE custom_names[t]]
                       ELSE custom_names
    /\ UNCHANGED <<dialogOpen, selection, selectAll, outputPath, browseFolder,
                   DialogFrame>>

\* the user types into the path field; _OnInputChanged.notify takes none
\* of its branches, lines 175-182 and 235-238
InputChangedOutputPath ==
    /\ dialogOpen
    /\ \E text \in TypedPaths : outputPath' = text
    /\ IF updating THEN UNCHANGED updating ELSE updating' = FALSE
    /\ UNCHANGED <<dialogOpen, selection, selectAll, nameFields, browseFolder,
                   custom_names, typed, DialogFrame>>

\* the user clicks Browse and picks a folder or cancels the folder dialog;
\* _OnInputChanged.notify, lines 175-182 and 222-238
InputChangedBrowse ==
    /\ dialogOpen
    /\ IF updating
       THEN /\ browseFolder' = TRUE
            /\ UNCHANGED <<outputPath, updating>>
       ELSE /\ updating' = FALSE
            /\ browseFolder' = FALSE
            /\ \/ \E folder \in Folders : outputPath' = folder
               \/ UNCHANGED outputPath
    /\ UNCHANGED <<dialogOpen, selection, selectAll, nameFields, custom_names,
                   typed, DialogFrame>>

(***************************************************************************)
(* The entry points run and stop, lines 379-431.  The host keeps the       *)
(* command definitions and the toolbar controls; the model counts those    *)
(* with the identifier CMD_ID.                                             *)
(***************************************************************************)
\* what the add-in's calls leave alone
AddInFrame == <<sanVars, setVars, designVars, dialogVars, fsVars, execVars,
    logVars, valVars, reactVars>>

\* a run that leaves the registration it finds: a mutant
StaleKept(n) == n

\* the registrations with CMD_ID after itemById(CMD_ID) and deleteMe() on
\* the item found, lines 387-389, 396-398, 417-419 and 421-423
StaleRemoved(n) == IF n > 0 THEN n - 1 ELSE 0

\* run(context), lines 379-409, called for an add-in that is stopped or,
\* again, for one that is started; in a host without the panel line 396
\* raises and the message box of lines 405-409 is shown
Run ==
    /\ rpc = "none"
    /\ handlers + 1 <= MaxHandlers
    /\ started' = TRUE
    /\ ui' = TRUE
    /\ lastCall' = "run"
    /\ staleFound' = (cmdDefs > 0 \/ controls > 0)
    /\ cmdDefs' = StaleRemoved(cmdDefs) + 1
    /\ IF panelPresent
       THEN /\ controls' = StaleRemoved(controls) + 1
            /\ handlers' = handlers + 1
       ELSE UNCHANGED <<controls, handlers>>
    /\ UNCHANGED <<panelPresent, AddInFrame>>

\* stop(context), lines 412-431, which the host calls only for an add-in
\* it has run since the module was loaded; with _ui unset line 415 would
\* raise and the except clause show nothing
Stop ==
    /\ ui
    /\ rpc = "none"
    /\ started' = FALSE
    /\ lastCall' = "stop"
    /\ IF ui
       THEN /\ controls' = IF panelPresent THEN StaleRemoved(controls)
                                           ELSE controls
            /\ cmdDefs' = StaleRemoved(cmdDefs)
            /\ handlers' = 0
       ELSE UNCHANGED <<controls, cmdDefs, handlers>>
    /\ UNCHANGED <<ui, panelPresent, staleFound, AddInFrame>>

\* the module is loaded anew without a call of stop, after the host or
\* the add-in has crashed: the globals are those of lines 25-29, and the
\* host has kept the registrations or has lost them
ModuleReloaded ==
    /\ ~dialogOpen
    /\ started' = FALSE
    /\ ui' = FALSE
    /\ handlers' = 0
    /\ lastCall' = "none"
    /\ staleFound' = FALSE
    /\ \/ UNCHANGED <<cmdDefs, controls>>
       \/ cmdDefs' = 0 /\ controls' = 0
    /\ updating' = FALSE
    /\ custom_names' = <<>>
    /\ typed' = <<>>
    /\ UNCHANGED <<dialogOpen, selection, selectAll, nameFields, outputPath,
                   browseFolder, panelPresent, sanVars, setVars,
                   designVars, fsVars, execVars, logVars, valVars, reactVars>>

\* SpecAddIn starts with the module just loaded, in a host with or without
\* the panel and with or without a registration left by an earlier session
AddInInit ==
    /\ started = FALSE
    /\ ui = FALSE
    /\ handlers = 0
    /\ panelPresent \in BOOLEAN
    /\ cmdDefs \in {0, 1}
    /\ controls \in IF panelPresent THEN {0, 1} ELSE {0}
    /\ lastCall = "none"
    /\ staleFound = FALSE

(***************************************************************************)
(* _OnInputChanged.notify, lines 175-238, step by step: the host calls the *)
(* handler again, inside the running call, when the handler itself changes *)
(* an input.                                                               *)
(***************************************************************************)
\* a handler that never returns at line 178: a mutant
EventIgnoredNever(flag) == FALSE

\* the test of line 177: the event is ignored when _updating is set
EventIgnored(flag) == flag

\* a reset of _updating made at the end of the try block only: a mutant
FlagAfterExitNormalOnly(path, flag) == IF path = "normal" THEN FALSE ELSE flag

\* _updating after the finally of lines 237-238, whichever way the try
\* block was left
FlagAfterExit(path, flag) == FALSE

\* the changes the user makes to the inputs: a click on select-all, a
\* pick of body idx, a text typed into name field idx or into the path
\* field, a click on Browse
UserEvents ==
    {[id |-> "selectAll", idx |-> 0, text |-> <<>>],
     [id |-> "browseFolder", idx |-> 0, text |-> <<>>]}
    \cup {[id |-> "bodySelection", idx |-> b, text |-> <<>>] :
              b \in (1..nBodies) \ hidden}
    \cup {[id |-> "saveName", idx |-> i, text |-> Question] :
              i \in 1..Len(nameFields)}
    \cup {[id |-> "outputPath", idx |-> 0, text |-> <<>>]}

\* the user changes an input and the host calls the handler, lines 175-182
UserChangesInput ==
    /\ dialogOpen
    /\ rpc = "none"
    /\ nested = "none"
    /\ \E ev \in UserEvents :
        /\ selectAll' = IF ev.id = "selectAll" THEN ~selectAll ELSE selectAll
        /\ selection' =
               IF ev.id = "bodySelection"
               THEN IF InSeq(ev.idx, selection)
                    THEN RemoveFrom(selection, ev.idx)
                    ELSE Append(selection, ev.idx)
               ELSE selection
        /\ nameFields' = IF ev.id = "saveName"
                         THEN [nameFields EXCEPT ![ev.idx].value = ev.text]
                         ELSE nameFields
        /\ typed' = IF ev.id = "saveName" /\ ev.idx - 1 < Len(selection)
                    THEN [t \in DOMAIN typed \cup {selection[ev.idx]} |->
                             IF t = selection[ev.idx] THEN ev.text ELSE typed[t]]
                    ELSE typed
        /\ outputPath' = IF ev.id = "outputPath" THEN ev.text ELSE outputPath
        /\ browseFolder' = IF ev.id = "browseFolder" THEN TRUE ELSE browseFolder
        /\ IF EventIgnored(updating)
           THEN UNCHANGED <<updating, changed, rpc, exitPath, ignored>>
           ELSE /\ updating' = TRUE
                /\ changed' = [id |-> ev.id, idx |-> ev.idx]
                /\ rpc' = "branch"
                /\ exitPath' = "none"
                /\ ignored' = <<>>
    /\ UNCHANGED <<dialogOpen, custom_names, nested, sanVars, setVars,
                   designVars, fsVars, execVars, logVars, valVars, addinVars>>

\* what the steps of a reaction leave alone
ReactFrame == <<sanVars, setVars, designVars, fsVars, execVars, logVars,
    valVars, addinVars>>

\* the events the host may deliver when the handler has changed the input
\* id from the value before to the value after
NestedEvents(id, before, after) ==
    IF before = after THEN {"none"} ELSE {"none", id}

\* lines 185-198: the select-all branch up to the rebuild
ReactSelectAll ==
    /\ rpc = "branch" /\ nested = "none"
    /\ changed.id = "selectAll"
    /\ IF ~designActive
       THEN /\ rpc' = "finally"
            /\ exitPath' = "return"
            /\ UNCHANGED <<selection, nested>>
       ELSE /\ selection' = IF selectAll THEN AddAll(selection, AllBodies)
                                         ELSE <<>>
            /\ nested' \in NestedEvents("bodySelection", selection, selection')
            /\ rpc' = "rebuild"
            /\ UNCHANGED exitPath
    /\ UNCHANGED <<dialogOpen, selectAll, nameFields, outputPath, browseFolder,
                   updating, custom_names, typed, changed, ignored, ReactFrame>>

\* lines 202-208: the manual-selection branch up to the rebuild
ReactBodySelection ==
    /\ rpc = "branch" /\ nested = "none"
    /\ changed.id = "bodySelection"
    /\ selectAll' = IF designActive THEN SelectAllInSync(selection)
                                    ELSE selectAll
    /\ nested' \in NestedEvents("selectAll", selectAll, selectAll')
    /\ rpc' = "rebuild"
    /\ UNCHANGED <<dialogOpen, selection, nameFields, outputPath, browseFolder,
                   updating, custom_names, typed, changed, exitPath, ignored,
                   ReactFrame>>

\* lines 199 and 209: _rebuild_name_list(inputs)
ReactRebuild ==
    /\ rpc = "rebuild" /\ nested = "none"
    /\ nameFields' = RebuildNameList(selection, custom_names)
    /\ rpc' = "finally"
    /\ exitPath' = "normal"
    /\ UNCHANGED <<dialogOpen, selection, selectAll, outputPath, browseFolder,
                   updating, custom_names, typed, changed, nested, ignored,
                   ReactFrame>>

\* lines 211-219: the name-field branch
ReactSaveName ==
    /\ rpc = "branch" /\ nested = "none"
    /\ changed.id = "saveName"
    /\ custom_names' =
           IF changed.idx - 1 < Len(selection)
           THEN [t \in DOMAIN custom_names \cup {NameKey(selection, changed.idx)} |->
                    IF t = NameKey(selection, changed.idx)
                    THEN nameFields[changed.idx].value
                    ELSE custom_names[t]]
           ELSE custom_names
    /\ rpc' = "finally"
    /\ exitPath' = "normal"
    /\ UNCHANGED <<dialogOpen, selection, selectAll, nameFields, outputPath,
                   browseFolder, updating, typed, changed, nested, ignored,
                   ReactFrame>>

\* a change of the path field: none of the branches of lines 185-233
ReactOutputPath ==
    /\ rpc = "branch" /\ nested = "none"
    /\ changed.id = "outputPath"
    /\ rpc' = "finally"
    /\ exitPath' = "normal"
    /\ UNCHANGED <<dialogOpen, selection, selectAll, nameFields, outputPath,
                   browseFolder, updating, custom_names, typed, changed, nested,
                   ignored, ReactFrame>>

\* lines 221-232: the folder dialog, confirmed with a folder or cancelled
ReactBrowse ==
    /\ rpc = "branch" /\ nested = "none"
    /\ changed.id = "browseFolder"
    /\ \/ \E folder \in Folders : outputPath' = folder
       \/ UNCHANGED outputPath
    /\ nested' \in NestedEvents("outputPath", outputPath, outputPath')
    /\ rpc' = "reset"
    /\ UNCHANGED <<dialogOpen, selection, selectAll, nameFields, browseFolder,
                   updating, custom_names, typed, changed, exitPath, ignored,
                   ReactFrame>>

\* line 233: chk.value = False
ReactBrowseReset ==
    /\ rpc = "reset" /\ nested = "none"
    /\ browseFolder' = FALSE
    /\ nested' \in NestedEvents("browseFolder", browseFolder, browseFolder')
    /\ rpc' = "finally"
    /\ exitPath' = "normal"
    /\ UNCHANGED <<dialogOpen, selection, selectAll, nameFields, outputPath,
                   updating, custom_names, typed, changed, ignored, ReactFrame>>

\* a host call of the reaction raises and the message box of lines
\* 235-236 is shown
ReactionRaises ==
    /\ rpc \in {"branch", "rebuild", "reset"} /\ nested = "none"
    /\ faults < MaxReactFaults
    /\ faults' = faults + 1
    /\ rpc' = "finally"
    /\ exitPath' = "raised"
    /\ UNCHANGED <<dialogOpen, selection, selectAll, nameFields, outputPath,
                   browseFolder, updating, custom_names, typed, changed, nested,
                   ignored, sanVars, setVars, designVars, fsVars, execVars,
                   removeLog, exportLog, startDirs, startFiles, cancelPoint,
                   startSettings, valVars, addinVars>>

\* lines 237-238: the finally clause, and the handler returns
ReactionExit ==
    /\ rpc = "finally" /\ nested = "none"
    /\ updating' = FlagAfterExit(exitPath, updating)
    /\ changed' = NoChange
    /\ rpc' = "none"
    /\ ignored' = <<>>
    /\ UNCHANGED <<dialogOpen, selection, selectAll, nameFields, outputPath,
                   browseFolder, custom_names, typed, exitPath, nested,
                   ReactFrame>>

\* the host calls the handler inside the running reaction, for the input
\* nested that the reaction has changed: lines 175-178, and were the event
\* not ignored, the whole of lines 179-238 for it
NestedInputChanged ==
    /\ nested # "none"
    /\ nested' = "none"
    /\ IF EventIgnored(updating)
       THEN /\ ignored' = Append(ignored, nested)
            /\ UNCHANGED <<selection, selectAll, nameFields, updating>>
       ELSE /\ updating' = FlagAfterExit("normal", updating)
            /\ selection' =
                   IF nested = "selectAll" /\ designActive
                   THEN IF selectAll THEN AddAll(selection, AllBodies) ELSE <<>>
                   ELSE selection
            /\ selectAll' =
                   IF nested = "bodySelection" /\ designActive
                   THEN SelectAllInSync(selection)
                   ELSE selectAll
            /\ nameFields' =
                   IF nested = "bodySelection" \/ (nested = "selectAll" /\ designActive)
                   THEN RebuildNameList(selection', custom_names)
                   ELSE nameFields
            /\ UNCHANGED ignored
    /\ UNCHANGED <<dialogOpen, outputPath, browseFolder, custom_names, typed,
                   changed, rpc, exitPath, ReactFrame>>

(***************************************************************************)
(* _OnValidateInputs.notify, lines 244-257.                                *)
(***************************************************************************)
\* a validation that does not strip the path: a mutant
InputsValidUnstripped(sel, path) == Len(sel) > 0 /\ Len(path) > 0

\* the value of lines 252-255
InputsValid(sel, path) == Len(sel) > 0 /\ Len(Strip(path)) > 0

\* the handler returns, or an exception inside it is caught at line 256
ValidateInputs ==
    /\ dialogOpen
    /\ validation = "none"
    /\ \/ /\ areInputsValid' = InputsValid(selection, outputPath)
          /\ validation' = "returned"
       \/ /\ areInputsValid' = FALSE
          /\ validation' = "raised"
    /\ UNCHANGED <<sanVars, setVars, designVars, dialogVars, fsVars, execVars,
                   logVars, reactVars, addinVars>>

(***************************************************************************)
(* The file system and _OnExecute.notify, lines 263-373.                   *)
(***************************************************************************)
NoMessage == [kind |-> "none"]
NoCancel == [phase |-> "none", done |-> 0]

ExecIdle ==
    /\ dirs = {}
    /\ files = <<>>
    /\ pc = "idle"
    /\ output_dir = <<>>
    /\ export_jobs = <<>>
    /\ cur = 0
    /\ overwritten = 0
    /\ exported = 0
    /\ errors = <<>>
    /\ cancelled = FALSE
    /\ wasCancelled = FALSE
    /\ message = NoMessage
    /\ removeLog = <<>>
    /\ exportLog = <<>>
    /\ startDirs = {}
    /\ startFiles = {}
    /\ startSettings = NoSettingsFile
    /\ cancelPoint = NoCancel
    /\ faults = 0
    /\ areInputsValid = FALSE
    /\ validation = "none"

\* str(idx) of a positive integer
RECURSIVE Decimal(_)
Decimal(k) ==
    LET digit == <<"0", "1", "2", "3", "4", "5", "6", "7", "8", "9">>
    IN  IF k < 10 THEN <<digit[k + 1]>>
        ELSE Decimal(k \div 10) \o <<digit[(k % 10) + 1]>>

\* os.path.join(output_dir, name) with the separator "/"
PathJoin(dir, name) ==
    IF dir = <<>> \/ dir[Len(dir)] = "/" THEN dir \o name
    ELSE dir \o <<"/">> \o name

StlExtension == <<".", "s", "t", "l">>

\* raw names taken from the display names alone: a mutant
RawNamesFromDisplay(bodies, fields) ==
    [i \in 1..Len(bodies) |-> SafeFilename(bodyName[bodies[i]])]

\* the loop of lines 293-300: the sanitized save name of each body, read
\* from the field at the body's position, or the display name without one
RawNames(bodies, fields) ==
    [i \in 1..Len(bodies) |->
        SafeFilename(IF i - 1 < Len(fields) THEN fields[i].value
                                         ELSE bodyName[bodies[i]])]

\* name_count of lines 302-304, as a function of the name
RECURSIVE NameCount(_, _)
NameCount(raw_names, n) ==
    IF raw_names = <<>> THEN 0
    ELSE (IF Head(raw_names) = n THEN 1 ELSE 0) + NameCount(Tail(raw_names), n)

\* fname of line 311 with the suffix given to every name: a mutant
FileNameAlwaysNumbered(n, idx, count) ==
    n \o <<" ", "(">> \o Decimal(idx) \o <<")">>

\* fname of line 311: '{} ({})'.format(n, idx) if name_count[n] > 1 else n
FileName(n, idx, count) ==
    IF count > 1 THEN n \o <<" ", "(">> \o Decimal(idx) \o <<")">> ELSE n

\* the loop of lines 306-313 from position i on; name_idx is the number of
\* earlier occurrences of each name
RECURSIVE BuildJobs(_, _, _, _)
BuildJobs(bodies, raw_names, dir, i) ==
    IF i > Len(bodies) THEN <<>>
    ELSE LET n == raw_names[i]
             idx == NameCount(SubSeq(raw_names, 1, i - 1), n) + 1
             fname == FileName(n, idx, NameCount(raw_names, n))
         IN  <<[body |-> bodies[i],
                fname |-> fname,
                fpath |-> PathJoin(dir, fname \o StlExtension)]>>
             \o BuildJobs(bodies, raw_names, dir, i + 1)

\* export_jobs of lines 293-313
ExportJobs(bodies, fields, dir) ==
    BuildJobs(bodies, RawNames(bodies, fields), dir, 1)

\* str(ex) of a raised export call
ExportErrorText == <<"e", "r", "r">>

\* an entry with the error text alone: a mutant
ErrorEntryNoName(body) == ExportErrorText

\* the entry of line 354: '{}: {}'.format(body.name, ex)
ErrorEntry(body) == bodyName[body] \o <<":", " ">> \o ExportErrorText

\* the message of lines 361-370, one element per line
Summary(n_exported, n_overwritten, errs, was_cancelled, dir) ==
    <<<<"Exported", n_exported>>>>
    \o (IF n_overwritten # 0 THEN <<<<"Overwritten", n_overwritten>>>> ELSE <<>>)
    \o (IF errs # <<>>
        THEN <<<<"Errors", Len(errs)>>>>
             \o [i \in 1..Len(errs) |-> <<"bullet", errs[i]>>]
        ELSE <<>>)
    \o (IF was_cancelled THEN <<<<"Export cancelled by user.">>>> ELSE <<>>)
    \o <<<<"Location", dir>>>>

SummaryMessage(n_exported, n_overwritten, errs, was_cancelled, dir) ==
    [kind |-> "summary",
     lines |-> Summary(n_exported, n_overwritten, errs, was_cancelled, dir)]

\* output_dir without the strip(): a mutant
OutputDirUntrimmed(path) == path

\* output_dir of line 276
OutputDir(path) == Strip(path)

\* a raised call counts against MaxFaults
MayRaise == faults < MaxFaults

ExecLocalsUnchanged ==
    UNCHANGED <<export_jobs, cur, overwritten, exported, errors, cancelled>>

\* the check of line 278 made after the save of line 283: a mutant
ExecuteNoBodiesAfterSave ==
    /\ pc = "idle" /\ dialogOpen
    /\ selection = <<>>
    /\ output_dir' = OutputDir(outputPath)
    /\ settingsFile' = SettingsAfterSave(
           settingsFile, <<<<"outputPath", output_dir'>>>>, "written")
    /\ message' = [kind |-> "info", text |-> "No bodies selected."]
    /\ pc' = "done"
    /\ ExecLocalsUnchanged
    /\ startDirs' = dirs
    /\ startFiles' = DOMAIN files
    /\ startSettings' = settingsFile
    /\ UNCHANGED <<wasCancelled, sanVars, lastSaved, writeFailed, designVars,
                   dialogVars, fsVars, removeLog, exportLog, cancelPoint,
                   faults, valVars, reactVars, addinVars>>

\* lines 264-280: the handler finds no body selected
ExecuteNoBodies ==
    /\ pc = "idle" /\ dialogOpen
    /\ selection = <<>>
    /\ output_dir' = OutputDir(outputPath)
    /\ message' = [kind |-> "info", text |-> "No bodies selected."]
    /\ pc' = "done"
    /\ ExecLocalsUnchanged
    /\ startDirs' = dirs
    /\ startFiles' = DOMAIN files
    /\ startSettings' = settingsFile
    /\ UNCHANGED <<wasCancelled, sanVars, setVars, designVars, dialogVars,
                   fsVars, removeLog, exportLog, cancelPoint, faults, valVars, reactVars, addinVars>>

\* lines 264-282 and 372-373: os.makedirs raises (always for an empty path)
ExecuteMakedirsRaises ==
    /\ pc = "idle" /\ dialogOpen
    /\ selection # <<>>
    /\ output_dir' = OutputDir(outputPath)
    /\ \/ output_dir' = <<>> /\ UNCHANGED faults
       \/ /\ output_dir' # <<>>
          /\ output_dir' \notin dirs
          /\ MayRaise
          /\ faults' = faults + 1
    /\ startDirs' = dirs
    /\ startFiles' = DOMAIN files
    /\ startSettings' = settingsFile
    /\ message' = [kind |-> "failed", text |-> "Export failed"]
    /\ pc' = "done"
    /\ ExecLocalsUnchanged
    /\ UNCHANGED <<wasCancelled, sanVars, setVars, designVars, dialogVars,
                   fsVars, removeLog, exportLog, cancelPoint, valVars, reactVars, addinVars>>

\* lines 264-313: the directory is made, the settings are saved, and with
\* an active design the jobs are built; with none line 286 raises
ExecuteBegin ==
    /\ pc = "idle" /\ dialogOpen
    /\ selection # <<>>
    /\ output_dir' = OutputDir(outputPath)
    /\ output_dir' # <<>>
    /\ dirs' = dirs \cup {output_dir'}
    /\ \E outcome \in WriteOutcomes :
        /\ outcome # "written" => MayRaise
        /\ faults' = IF outcome = "written" THEN faults ELSE faults + 1
        /\ settingsFile' = SettingsAfterSave(
               settingsFile, <<<<"outputPath", output_dir'>>>>, outcome)
        /\ writeFailed' = (writeFailed \/ outcome # "written")
    /\ lastSaved' = [k \in DOMAIN lastSaved \cup {"outputPath"} |->
                        IF k = "outputPath" THEN output_dir' ELSE lastSaved[k]]
    /\ startDirs' = dirs
    /\ startFiles' = DOMAIN files
    /\ startSettings' = settingsFile
    /\ IF designActive
       THEN /\ export_jobs' = ExportJobs(selection, nameFields, output_dir')
            /\ cur' = 1
            /\ pc' = "cleanup"
            /\ UNCHANGED message
       ELSE /\ message' = [kind |-> "failed", text |-> "Export failed"]
            /\ pc' = "done"
            /\ UNCHANGED <<export_jobs, cur>>
    /\ UNCHANGED <<overwritten, exported, errors, cancelled, wasCancelled,
                   files, removeLog, exportLog, cancelPoint,
                   sanVars, designVars, dialogVars, valVars, reactVars, addinVars>>

\* f without the path p
WithoutFile(f, p) == [q \in DOMAIN f \ {p} |-> f[q]]

\* f with content c at path p
WithFile(f, p, c) == [q \in DOMAIN f \cup {p} |-> IF q = p THEN c ELSE f[q]]

\* a cleanup loop that stops after its first iteration: a mutant
ExecuteCleanupFirstOnly ==
    /\ pc = "cleanup"
    /\ LET fpath == export_jobs[cur].fpath
       IN  IF fpath \in DOMAIN files
           THEN /\ removeLog' = Append(removeLog, fpath)
                /\ \/ /\ files' = WithoutFile(files, fpath)
                      /\ overwritten' = overwritten + 1
                      /\ UNCHANGED faults
                   \/ /\ MayRaise
                      /\ faults' = faults + 1
                      /\ UNCHANGED <<files, overwritten>>
           ELSE UNCHANGED <<files, overwritten, removeLog, faults>>
    /\ cur' = 1 /\ pc' = "poll"
    /\ UNCHANGED <<output_dir, export_jobs, exported, errors, cancelled,
                   wasCancelled, message, dirs, exportLog, startDirs,
                   startFiles, startSettings, cancelPoint, sanVars, setVars,
                   designVars, dialogVars, valVars, reactVars, addinVars>>

\* a cleanup loop that a failed os.remove ends, with the message of line
\* 373: a mutant
ExecuteCleanupAborting ==
    /\ pc = "cleanup"
    /\ LET fpath == export_jobs[cur].fpath
       IN  IF fpath \in DOMAIN files
           THEN /\ removeLog' = Append(removeLog, fpath)
                /\ \/ /\ files' = WithoutFile(files, fpath)
                      /\ overwritten' = overwritten + 1
                      /\ IF cur < Len(export_jobs)
                         THEN cur' = cur + 1 /\ pc' = "cleanup"
                         ELSE cur' = 1 /\ pc' = "poll"
                      /\ UNCHANGED <<faults, message>>
                   \/ /\ MayRaise
                      /\ faults' = faults + 1
                      /\ message' = [kind |-> "failed", text |-> "Export failed"]
                      /\ pc' = "done"
                      /\ UNCHANGED <<files, overwritten, cur>>
           ELSE /\ IF cur < Len(export_jobs)
                   THEN cur' = cur + 1 /\ pc' = "cleanup"
                   ELSE cur' = 1 /\ pc' = "poll"
                /\ UNCHANGED <<files, overwritten, removeLog, faults, message>>
    /\ UNCHANGED <<output_dir, export_jobs, exported, errors, cancelled,
                   wasCancelled, dirs, exportLog, startDirs,
                   startFiles, startSettings, cancelPoint, sanVars, setVars,
                   designVars, dialogVars, valVars, reactVars, addinVars>>

\* one iteration of the loop of lines 317-323; after the last one the
\* progress dialog is shown, lines 326-338
ExecuteCleanup ==
    /\ pc = "cleanup"
    /\ LET fpath == export_jobs[cur].fpath
       IN  IF fpath \in DOMAIN files
           THEN /\ removeLog' = Append(removeLog, fpath)
                /\ \/ /\ files' = WithoutFile(files, fpath)
                      /\ overwritten' = overwritten + 1
                      /\ UNCHANGED faults
                   \/ /\ MayRaise
                      /\ faults' = faults + 1
                      /\ UNCHANGED <<files, overwritten>>
           ELSE UNCHANGED <<files, overwritten, removeLog, faults>>
    /\ IF cur < Len(export_jobs)
       THEN cur' = cur + 1 /\ pc' = "cleanup"
       ELSE cur' = 1 /\ pc' = "poll"
    /\ UNCHANGED <<output_dir, export_jobs, exported, errors, cancelled,
                   wasCancelled, message, dirs, exportLog, startDirs,
                   startFiles, startSettings, cancelPoint, sanVars, setVars, designVars,
                   dialogVars, valVars, reactVars, addinVars>>

\* the user presses Cancel while adsk.doEvents() runs the host's events
\* (lines 335, 341, 346)
CancelPressed ==
    /\ pc \in {"poll", "export"}
    /\ ~wasCancelled
    /\ wasCancelled' = TRUE
    /\ cancelPoint' = [phase |-> pc, done |-> cur - 1]
    /\ UNCHANGED <<pc, output_dir, export_jobs, cur, overwritten, exported,
                   errors, cancelled, message, fsVars, removeLog, exportLog,
                   startDirs, startFiles, startSettings, faults, sanVars, setVars, designVars,
                   dialogVars, valVars, reactVars, addinVars>>

\* the top of an iteration without the break of line 344: a mutant
ExecutePollNoBreak ==
    /\ pc = "poll"
    /\ cancelled' = (cancelled \/ wasCancelled)
    /\ pc' = "export"
    /\ UNCHANGED <<output_dir, export_jobs, cur, overwritten, exported, errors,
                   wasCancelled, message, fsVars, logVars,
                   sanVars, setVars, designVars, dialogVars, valVars, reactVars, addinVars>>

\* lines 340-345: the top of an iteration; a set wasCancelled ends the loop
\* and the summary of lines 356-370 is shown
ExecutePoll ==
    /\ pc = "poll"
    /\ IF wasCancelled
       THEN /\ cancelled' = TRUE
            /\ message' = SummaryMessage(exported, overwritten, errors, TRUE,
                                         output_dir)
            /\ pc' = "done"
       ELSE /\ pc' = "export"
            /\ UNCHANGED <<cancelled, message>>
    /\ UNCHANGED <<output_dir, export_jobs, cur, overwritten, exported, errors,
                   wasCancelled, fsVars, logVars,
                   sanVars, setVars, designVars, dialogVars, valVars, reactVars, addinVars>>

\* an export whose count of line 352 is also made when the call raises: a
\* mutant
ExecuteExportCountingRaised ==
    /\ pc = "export"
    /\ LET job == export_jobs[cur]
       IN  \/ /\ files' = WithFile(files, job.fpath, job.body)
              /\ exported' = exported + 1
              /\ exportLog' = Append(exportLog, [job |-> cur, ok |-> TRUE])
              /\ UNCHANGED <<errors, faults>>
           \/ /\ MayRaise
              /\ faults' = faults + 1
              /\ exported' = exported + 1
              /\ errors' = Append(errors, ErrorEntry(job.body))
              /\ exportLog' = Append(exportLog, [job |-> cur, ok |-> FALSE])
              /\ UNCHANGED files
    /\ IF cur < Len(export_jobs)
       THEN /\ cur' = cur + 1
            /\ pc' = "poll"
            /\ UNCHANGED message
       ELSE /\ pc' = "done"
            /\ message' = SummaryMessage(exported', overwritten, errors',
                                         cancelled, output_dir)
            /\ UNCHANGED cur
    /\ UNCHANGED <<output_dir, export_jobs, overwritten, cancelled,
                   wasCancelled, dirs, removeLog, startDirs, startFiles,
                   startSettings, cancelPoint, sanVars, setVars, designVars,
                   dialogVars, valVars, reactVars, addinVars>>

\* lines 346-354: the export of job cur, which the host may raise from;
\* after the last job the summary of lines 356-370 is shown
ExecuteExport ==
    /\ pc = "export"
    /\ LET job == export_jobs[cur]
       IN  \/ /\ files' = WithFile(files, job.fpath, job.body)
              /\ exported' = exported + 1
              /\ exportLog' = Append(exportLog, [job |-> cur, ok |-> TRUE])
              /\ UNCHANGED <<errors, faults>>
           \/ /\ MayRaise
              /\ faults' = faults + 1
              /\ errors' = Append(errors, ErrorEntry(job.body))
              /\ exportLog' = Append(exportLog, [job |-> cur, ok |-> FALSE])
              /\ UNCHANGED <<files, exported>>
    /\ IF cur < Len(export_jobs)
       THEN /\ cur' = cur + 1
            /\ pc' = "poll"
            /\ UNCHANGED message
       ELSE /\ pc' = "done"
            /\ message' = SummaryMessage(exported', overwritten, errors',
                                         cancelled, output_dir)
            /\ UNCHANGED cur
    /\ UNCHANGED <<output_dir, export_jobs, overwritten, cancelled,
                   wasCancelled, dirs, removeLog, startDirs, startFiles,
                   startSettings, cancelPoint, sanVars, setVars, designVars, dialogVars,
                   valVars, reactVars, addinVars>>

\* the path fields SpecExec starts with
ExecPaths == {<<" ", "E", " ">>, <<>>}

\* SpecExec starts where the user confirms the dialog: every body of the
\* design selected, each name field at its default or edited
ExecInit ==
    /\ SanIdle
    /\ settingsFile \in SessionSettings
    /\ lastSaved = <<>>
    /\ writeFailed = FALSE
    /\ nBodies \in 0..MaxBodies
    /\ bodyName = [b \in 1..nBodies |-> CatalogueName(b)]
    /\ hidden = {}
    /\ designActive \in BOOLEAN
    /\ dialogOpen = TRUE
    /\ selection = AllBodies
    /\ selectAll = SelectAllInSync(selection)
    /\ \E values \in [1..nBodies -> EditTexts \cup {<<>>}] :
        /\ custom_names = [b \in {c \in 1..nBodies : values[c] # <<>>} |-> values[b]]
        /\ nameFields = RebuildNameList(selection, custom_names)
    /\ typed = custom_names
    /\ ReactIdle
    /\ AddInWithDialog
    /\ outputPath \in ExecPaths
    /\ browseFolder = FALSE
    /\ updating = FALSE
    /\ dirs \in {{}, {Strip(outputPath)}}
    /\ \E existing \in SUBSET {export_job.fpath : export_job \in
             {ExportJobs(selection, nameFields, Strip(outputPath))[i] :
                 i \in 1..Len(selection)}} :
        /\ existing # {} => dirs # {}
        /\ files = [q \in existing |-> "old"]
    /\ pc = "idle"
    /\ output_dir = <<>>
    /\ export_jobs = <<>>
    /\ cur = 0
    /\ overwritten = 0
    /\ exported = 0
    /\ errors = <<>>
    /\ cancelled = FALSE
    /\ wasCancelled = FALSE
    /\ message = NoMessage
    /\ removeLog = <<>>
    /\ exportLog = <<>>
    /\ startDirs = {}
    /\ startFiles = {}
    /\ startSettings = NoSettingsFile
    /\ cancelPoint = NoCancel
    /\ faults = 0
    /\ areInputsValid = FALSE
    /\ validation = "none"

NextExec ==
    \/ ExecuteNoBodies
    \/ ExecuteMakedirsRaises
    \/ ExecuteBegin
    \/ ExecuteCleanup
    \/ CancelPressed
    \/ ExecutePoll
    \/ ExecuteExport

SpecExec == ExecInit /\ [][NextExec]_vars

\* every sequence of distinct elements of S
Selections(S) ==
    {sel \in UNION {[1..k -> S] : k \in 0..Cardinality(S)} :
        \A i, j \in 1..Len(sel) : sel[i] = sel[j] => i = j}

\* SpecValidate starts with any selection and any path text in the dialog,
\* the directory the path names existing or not
ValidateInit ==
    /\ SanIdle
    /\ SetIdle
    /\ nBodies \in 0..MaxBodies
    /\ bodyName = [b \in 1..nBodies |-> CatalogueName(b)]
    /\ hidden = {}
    /\ designActive = TRUE
    /\ dialogOpen = TRUE
    /\ selection \in Selections(1..nBodies)
    /\ selectAll = SelectAllInSync(selection)
    /\ custom_names = <<>>
    /\ typed = <<>>
    /\ ReactIdle
    /\ AddInWithDialog
    /\ nameFields = RebuildNameList(selection, custom_names)
    /\ outputPath \in StringsUpTo({" ", "E"}, MaxLen)
    /\ browseFolder = FALSE
    /\ updating = FALSE
    /\ dirs \in {{}, {Strip(outputPath)}}
    /\ files = <<>>
    /\ pc = "idle"
    /\ output_dir = <<>>
    /\ export_jobs = <<>>
    /\ cur = 0
    /\ overwritten = 0
    /\ exported = 0
    /\ errors = <<>>
    /\ cancelled = FALSE
    /\ wasCancelled = FALSE
    /\ message = NoMessage
    /\ removeLog = <<>>
    /\ exportLog = <<>>
    /\ startDirs = {}
    /\ startFiles = {}
    /\ startSettings = NoSettingsFile
    /\ cancelPoint = NoCancel
    /\ faults = 0
    /\ areInputsValid = FALSE
    /\ validation = "none"

SpecValidate == ValidateInit /\ [][ValidateInputs]_vars

(***************************************************************************)
(* The specifications.                                                     *)
(***************************************************************************)
DesignIdle ==
    /\ nBodies = 0
    /\ bodyName = <<>>
    /\ hidden = {}
    /\ designActive = TRUE

InitSan ==
    /\ SanInit /\ SetIdle /\ DesignIdle /\ DialogIdle /\ ExecIdle
    /\ ReactIdle /\ AddInStarted

SpecSan == InitSan /\ [][SanApply]_vars

InitSettings ==
    /\ SetIdle /\ SanIdle /\ DesignIdle /\ DialogIdle /\ ExecIdle
    /\ ReactIdle /\ AddInStarted

SpecSettings == InitSettings /\ [][SaveSettings]_vars

Init ==
    /\ SanIdle
    /\ settingsFile \in SessionSettings
    /\ lastSaved = <<>>
    /\ writeFailed = FALSE
    /\ DesignInit
    /\ DialogIdle
    /\ ExecIdle
    /\ ReactIdle
    /\ AddInStarted

Next ==
    \/ CommandCreated
    \/ CommandCreatedNoDesign
    \/ CloseDialog
    \/ SwitchProduct
    \/ InputChangedSelectAll
    \/ InputChangedBodySelection
    \/ InputChangedSaveName
    \/ InputChangedOutputPath
    \/ InputChangedBrowse

Spec == Init /\ [][Next]_vars

\* the add-in started and stopped, and its command run
InitAddIn ==
    /\ SanIdle
    /\ SetIdle
    /\ nBodies \in 0..MaxBodies
    /\ bodyName = [b \in 1..nBodies |-> CatalogueName(b)]
    /\ hidden = {}
    /\ designActive = TRUE
    /\ DialogIdle
    /\ ExecIdle
    /\ ReactIdle
    /\ AddInInit

NextAddIn ==
    \/ Run
    \/ Stop
    \/ ModuleReloaded
    \/ CommandCreated
    \/ CommandCreatedNoDesign
    \/ CloseDialog
    \/ SwitchProduct

SpecAddIn == InitAddIn /\ [][NextAddIn]_vars

\* SpecReact starts with the dialog just built by _OnCommandCreated.notify
ReactInit ==
    /\ SanIdle
    /\ SetIdle
    /\ nBodies \in 0..MaxReactBodies
    /\ bodyName = [b \in 1..nBodies |-> CatalogueName(b)]
    /\ hidden = {}
    /\ designActive = TRUE
    /\ dialogOpen = TRUE
    /\ selection = <<>>
    /\ selectAll = FALSE
    /\ nameFields = <<>>
    /\ outputPath = DownloadsFolder
    /\ browseFolder = FALSE
    /\ updating = FALSE
    /\ custom_names = <<>>
    /\ typed = <<>>
    /\ ExecIdle
    /\ ReactIdle
    /\ AddInWithDialog

\* the open dialog with the reactions taken step by step
NextReact ==
    \/ SwitchProduct
    \/ UserChangesInput
    \/ ReactSelectAll
    \/ ReactBodySelection
    \/ ReactRebuild
    \/ ReactSaveName
    \/ ReactOutputPath
    \/ ReactBrowse
    \/ ReactBrowseReset
    \/ ReactionRaises
    \/ ReactionExit
    \/ NestedInputChanged

SpecReact == ReactInit /\ [][NextReact]_vars

\* C6: the name _safe_filename returns holds none of \ / : * ? " < > |, is
\* never empty, and is 'body' when the input holds only illegal characters.
C6_SanitizedName ==
    LET illegal == {"\\", "/", ":", "*", "?", "\"", "<", ">", "|"}
    IN  sanDone =>
            /\ \A i \in 1..Len(sanOut) : sanOut[i] \notin illegal
            /\ sanOut # <<>>
            /\ (\A i \in 1..Len(sanIn) : sanIn[i] \in illegal)
                   => sanOut = <<"b", "o", "d", "y">>

\* an input of illegal characters only, among them "|", has been sanitized
C6_Witness ==
    /\ sanDone
    /\ sanIn # <<>>
    /\ \A i \in 1..Len(sanIn) : sanIn[i] \in IllegalChars
    /\ \E i \in 1..Len(sanIn) : sanIn[i] = "|"
    /\ sanOut = BodyLiteral

JobsBuilt == pc = "cleanup" /\ cur = 1

\* the raw names of lines 293-300 in the state
RawNamesNow == RawNames(selection, nameFields)

\* the positions among 1..i whose raw name is that of position i
OccurrencesUpTo(i) == {j \in 1..i : RawNamesNow[j] = RawNamesNow[i]}

\* C1: the collision-resolution step gives the N selected bodies N pairwise
\* distinct destination filenames, and emits unchanged every raw name that
\* occurs exactly once in the list.
C1_DistinctDestinations ==
    JobsBuilt =>
        /\ Len(export_jobs) = Len(selection)
        /\ \A i, j \in 1..Len(export_jobs) :
               i # j => export_jobs[i].fpath # export_jobs[j].fpath
        /\ \A i \in 1..Len(export_jobs) :
               Cardinality({j \in 1..Len(selection) :
                               RawNamesNow[j] = RawNamesNow[i]}) = 1
                   => export_jobs[i].fname = RawNamesNow[i]

\* C2: the k-th occurrence, in body-list order, of a raw name that occurs
\* more than once gets the destination name 'name (k)', and a name that
\* occurs once gets no suffix; the raw names Part, Part, Cylinder1 give
\* 'Part (1).stl', 'Part (2).stl', 'Cylinder1.stl' in this order.
C2_OccurrenceNumbering ==
    LET numeral == <<"1", "2", "3", "4", "5", "6", "7", "8", "9">>
        total(i) == Cardinality({j \in 1..Len(selection) :
                                    RawNamesNow[j] = RawNamesNow[i]})
        k(i) == Cardinality(OccurrencesUpTo(i))
        dest(i) == SubSeq(export_jobs[i].fpath, Len(output_dir) + 2,
                          Len(export_jobs[i].fpath))
    IN  JobsBuilt =>
            /\ Len(export_jobs) = Len(selection)
            /\ \A i \in 1..Len(export_jobs) :
                   /\ export_jobs[i].body = selection[i]
                   /\ export_jobs[i].fname =
                          IF total(i) > 1
                          THEN RawNamesNow[i] \o <<" ", "(", numeral[k(i)], ")">>
                          ELSE RawNamesNow[i]
                   /\ export_jobs[i].fpath =
                          output_dir \o <<"/">> \o export_jobs[i].fname
                              \o <<".", "s", "t", "l">>
            /\ RawNamesNow = <<Part, Part, Cylinder1>> =>
                   /\ dest(1) = <<"P", "a", "r", "t", " ", "(", "1", ")",
                                  ".", "s", "t", "l">>
                   /\ dest(2) = <<"P", "a", "r", "t", " ", "(", "2", ")",
                                  ".", "s", "t", "l">>
                   /\ dest(3) = <<"C", "y", "l", "i", "n", "d", "e", "r", "1",
                                  ".", "s", "t", "l">>

\* the jobs of the raw names Part, Part, Cylinder1 are built
C2_Witness ==
    /\ pc = "cleanup"
    /\ RawNamesNow = <<Part, Part, Cylinder1>>
    /\ export_jobs[2].fname = <<"P", "a", "r", "t", " ", "(", "2", ")">>
    /\ export_jobs[3].fname = Cylinder1

\* the lines of the summary with the given tag
SummaryLines(tag) ==
    {i \in 1..Len(message.lines) : message.lines[i][1] = tag}

\* the jobs whose export was called, in the order of the calls
Attempted == [i \in 1..Len(exportLog) |-> exportLog[i].job]

Succeeded == {i \in 1..Len(exportLog) : exportLog[i].ok}

\* the summary reports exactly the first k jobs, as exported or as errors,
\* with the cancellation notice, and the files exported are still there
SummaryOfCancelledAfter(k) ==
    /\ k < Len(export_jobs)
    /\ Attempted = [i \in 1..k |-> i]
    /\ message.lines[1] = <<"Exported", Cardinality(Succeeded)>>
    /\ Cardinality(SummaryLines("bullet")) = k - Cardinality(Succeeded)
    /\ Cardinality(SummaryLines("Export cancelled by user.")) = 1
    /\ \A i \in SummaryLines("Errors") :
           message.lines[i][2] = k - Cardinality(Succeeded)
    /\ \A i \in Succeeded :
           export_jobs[exportLog[i].job].fpath \in DOMAIN files

\* C3 as stated: when the cancellation flag is set after k of the N jobs
\* completed and before the export of job k+1 is called, the loop starts no
\* further job: the summary reports exactly the k completed jobs as
\* exported or as errors, holds the cancellation notice and no entry for
\* the other jobs, and the files exported are still there.
C3_CancelBeforeNextExport ==
    (message.kind = "summary" /\ cancelPoint.phase \in {"poll", "export"}) =>
        SummaryOfCancelledAfter(cancelPoint.done)

\* C3 amended: when the cancellation flag is set after k of the N jobs
\* completed and before the wasCancelled check of the iteration of job k+1
\* (line 342), the loop starts no further job: the summary reports exactly
\* the k completed jobs as exported or as errors, holds the cancellation
\* notice and no entry for the other jobs, and the files exported are
\* still there.
C3_CancelStopsLoop ==
    (message.kind = "summary" /\ cancelPoint.phase = "poll") =>
        SummaryOfCancelledAfter(cancelPoint.done)

\* Cancel was pressed after 2 of 3 jobs were exported, and the summary is shown
C3_Witness ==
    /\ message.kind = "summary"
    /\ cancelPoint = [phase |-> "poll", done |-> 2]
    /\ Len(export_jobs) = 3
    /\ exported = 2
    /\ message.lines[1] = <<"Exported", 2>>

\* name occurs in text
Contains(text, name) ==
    \E o \in 0..(Len(text) - Len(name)) :
        SubSeq(text, o + 1, o + Len(name)) = name

\* C4: when the export call of exactly one of the N jobs raises and the
\* user does not cancel, every job is attempted in order, and the summary
\* reports N-1 exported and one error entry, which holds the display name
\* of the body whose export raised.
C4_OneFailureContinues ==
    LET failed == {i \in 1..Len(exportLog) : ~exportLog[i].ok}
        N == Len(export_jobs)
    IN  (message.kind = "summary" /\ ~wasCancelled /\ Cardinality(failed) = 1) =>
            /\ Attempted = [i \in 1..N |-> i]
            /\ message.lines[1] = <<"Exported", N - 1>>
            /\ \E i \in 1..Len(message.lines) : message.lines[i] = <<"Errors", 1>>
            /\ Cardinality(SummaryLines("bullet")) = 1
            /\ \A i \in SummaryLines("bullet"), f \in failed :
                   Contains(message.lines[i][2],
                            bodyName[export_jobs[exportLog[f].job].body])

\* the export of the second of three bodies raised, and the summary is shown
C4_Witness ==
    /\ message.kind = "summary"
    /\ ~wasCancelled
    /\ Len(exportLog) = 3
    /\ ~exportLog[2].ok
    /\ exported = 2
    /\ Len(errors) = 1

\* an os.remove or an export call has been made
FileTouched == removeLog # <<>> \/ exportLog # <<>>

\* the settings file maps 'outputPath' to the trimmed path of the dialog
PathSaved ==
    \E i \in 1..Len(LoadSettings(settingsFile)) :
        LoadSettings(settingsFile)[i] = <<"outputPath", Strip(outputPath)>>

C9_ValidIffSelectedAndPath ==
    /\ validation = "returned" =>
           (areInputsValid <=>
               (Len(selection) > 0
                /\ \E i \in 1..Len(outputPath) : outputPath[i] \notin {" ", "\t"}))
    /\ validation = "raised" => areInputsValid = FALSE

\* the inputs are reported valid although the directory does not exist
C9_Witness ==
    /\ validation = "returned"
    /\ areInputsValid
    /\ outputPath = <<" ", "E", " ">>
    /\ dirs = {}

(***************************************************************************)
(* Properties of the dialog session, checked under Spec.                   *)
(***************************************************************************)
\* C5: the select-all checkbox reflects the selection: it is checked iff
\* the selection count equals the total body count of the design and that
\* total is > 0, so selecting all bodies one by one and clicking select-all
\* leave the same checked state and the same selection.
C5_CheckboxReflectsSelection ==
    dialogOpen =>
        (selectAll <=> (nBodies > 0 /\ Len(selection) = nBodies))

\* the bodies that can be selected in the design
SelectableTokens == (1..nBodies) \ hidden

\* C10: the keys of the custom-name map are tokens of bodies selectable in
\* the design in every state, and an entry leaves the map only in the step
\* that opens the dialog again.
C10_CustomNameKeys ==
    /\ [](DOMAIN custom_names \subseteq SelectableTokens)
    /\ [][(\E t \in DOMAIN custom_names : t \notin DOMAIN custom_names')
             => (~dialogOpen /\ dialogOpen')]_vars

\* the dialog is open and the map holds the name of a deselected body
C10_Witness ==
    /\ dialogOpen
    /\ \E t \in DOMAIN custom_names :
           /\ ~InSeq(t, selection)
           /\ custom_names[t] = PartOne
(***************************************************************************)
(* The two phases of the execution, checked under SpecExec.                *)
(***************************************************************************)
\* the destination paths of the jobs that were files when the execution
\* began
PreExisting == {export_jobs[j].fpath : j \in 1..Len(export_jobs)} \cap startFiles

\* the cleanup loop of lines 317-323 is over
CleanupOver == pc \in {"poll", "export"} \/ exportLog # <<>>

\* C14: the deletion of pre-existing destination files happens entirely
\* before the first export call: once a job has been exported no file is
\* deleted and no deletion is attempted, and every destination path that
\* was a file when the execution began has had a deletion attempt before
\* the first export.
C14_DeletionBeforeExports ==
    /\ [](CleanupOver => \A fpath \in PreExisting : InSeq(fpath, removeLog))
    /\ [][CleanupOver =>
              /\ removeLog' = removeLog
              /\ DOMAIN files \subseteq DOMAIN files']_vars

\* two files that were there were deleted, and then two jobs exported
C14_Witness ==
    /\ Cardinality(startFiles) = 2
    /\ Len(removeLog) = 2
    /\ Len(exportLog) = 2
    /\ exportLog[2].job = 2
\* a step in which os.remove was called and the file is still there
FailedDeletion == removeLog' # removeLog /\ files' = files

\* a step in which os.remove was called and the file is gone
DoneDeletion == removeLog' # removeLog /\ files' # files

\* after a deletion has been attempted the handler ends with the summary,
\* which, without a cancellation, follows an export call for every job
BatchNotAborted ==
    (removeLog # <<>> /\ pc = "done") =>
        /\ message.kind = "summary"
        /\ ~cancelled => Attempted = [i \in 1..Len(export_jobs) |-> i]

\* C15 as stated: in the pre-export cleanup a deletion failure is counted
\* and does not abort the batch: when deleting a pre-existing destination
\* file fails, the failure adds one to the count of the cleanup, the
\* remaining deletions are still attempted, and every export job is still
\* attempted afterwards.
C15_DeletionFailureCounted ==
    /\ [][FailedDeletion =>
              /\ overwritten' = overwritten + 1
              /\ pc' \in {"cleanup", "poll"}]_vars
    /\ [](CleanupOver => \A fpath \in PreExisting : InSeq(fpath, removeLog))
    /\ []BatchNotAborted

\* C15 amended: in the pre-export cleanup a deletion failure is not counted
\* and does not abort the batch: when deleting a pre-existing destination
\* file fails, the count of the cleanup stays as it is (it counts the
\* deletions that succeeded), the remaining deletions are still attempted,
\* and every export job is still attempted afterwards unless the user
\* cancels.
C15_DeletionFailureNotFatal ==
    /\ [][/\ FailedDeletion =>
                 /\ overwritten' = overwritten
                 /\ pc' \in {"cleanup", "poll"}
          /\ DoneDeletion => overwritten' = overwritten + 1]_vars
    /\ [](CleanupOver => \A fpath \in PreExisting : InSeq(fpath, removeLog))
    /\ []BatchNotAborted

\* the first of two deletions failed, the second was made, and both jobs
\* were exported
C15_Witness ==
    /\ message.kind = "summary"
    /\ Len(removeLog) = 2
    /\ overwritten = 1
    /\ removeLog[1] \in DOMAIN files
    /\ removeLog[1] # removeLog[2]
    /\ Len(exportLog) = 2
    /\ ~exportLog[1].ok
(***************************************************************************)
(* Batch-level faults, checked under SpecExec.                             *)
(***************************************************************************)
\* the handler has ended and os.makedirs had raised: the directory is not
\* there
MakedirsFailed == pc = "done" /\ selection # <<>> /\ Strip(outputPath) \notin dirs

\* the handler has ended and line 286 had raised, with no design active
JobListFailed ==
    pc = "done" /\ selection # <<>> /\ Strip(outputPath) \in dirs /\ ~designActive

\* a message box other than the summary is shown, and no os.remove and no
\* export call was made
AbortedWithMessage ==
    /\ message.kind \in {"info", "failed"}
    /\ removeLog = <<>>
    /\ exportLog = <<>>
    /\ DOMAIN files = startFiles
    /\ \A fpath \in startFiles : files[fpath] = "old"

\* C16: a batch-level fault aborts the whole execute step: with an empty
\* body list, or when creating the output directory or building the job
\* list raises, the handler shows a message and makes no file deletion and
\* no export; with an empty body list or a failed directory creation the
\* settings file is also left as it was.  No exception of an export call
\* leaves the export loop: the handler then ends with the summary, which
\* lists one error for each export call that raised.
C16_BatchFaultAborts ==
    /\ (pc = "done" /\ selection = <<>>) =>
           (AbortedWithMessage /\ settingsFile = startSettings)
    /\ MakedirsFailed => (AbortedWithMessage /\ settingsFile = startSettings)
    /\ JobListFailed => AbortedWithMessage
    /\ exportLog # <<>> =>
           /\ message.kind \in {"none", "summary"}
           /\ pc = "done" => message.kind = "summary"
           /\ Len(errors) = Len(exportLog) - Cardinality(Succeeded)

\* building the jobs raised after the settings were saved, and the files
\* that were there are untouched
C16_Witness ==
    /\ JobListFailed
    /\ message.kind = "failed"
    /\ settingsFile # startSettings
    /\ startFiles # {}
    /\ DOMAIN files = startFiles
(***************************************************************************)
(* The accounting of the export loop, checked under SpecExec.              *)
(***************************************************************************)
\* C19: each job is attempted at most once and in job-list order, and
\* every attempted job adds exactly one to either the exported count or
\* the error list, never to both; so at the summary exported + number of
\* errors is the number of jobs attempted, which is <= the number of jobs
\* and equals it whenever the cancellation flag was never observed set.
C19_ExportAccounting ==
    /\ [](/\ Attempted = [i \in 1..Len(exportLog) |-> i]
          /\ Len(exportLog) <= Len(export_jobs)
          /\ exported + Len(errors) = Len(exportLog)
          /\ message.kind = "summary" =>
                 /\ message.lines[1] = <<"Exported", exported>>
                 /\ Cardinality(SummaryLines("bullet")) = Len(errors)
                 /\ ~cancelled => Len(exportLog) = Len(export_jobs))
    /\ [][exportLog' # exportLog =>
              /\ Len(exportLog') = Len(exportLog) + 1
              /\ \/ exported' = exported + 1 /\ errors' = errors
                 \/ exported' = exported /\ Len(errors') = Len(errors) + 1]_vars

\* of three jobs one was exported and one raised before the cancellation
\* was observed
C19_Witness ==
    /\ message.kind = "summary"
    /\ cancelled
    /\ Len(export_jobs) = 3
    /\ exported = 1
    /\ Len(errors) = 1
    /\ Attempted = <<1, 2>>
(***************************************************************************)
(* The name fields of the dialog session, checked under Spec.              *)
(***************************************************************************)
\* C12: whatever the selection changes, select-all toggles and name-field
\* edits of the session, the raw name the execute handler uses for the
\* i-th selected body is the sanitized form of the last text typed into
\* that body's name field in the session, or the sanitized display name of
\* the body when its field was never edited.
C12_RawNameIsLastEdit ==
    dialogOpen =>
        \A i \in 1..Len(selection) :
            RawNamesNow[i] =
                SafeFilename(IF selection[i] \in DOMAIN typed
                             THEN typed[selection[i]]
                             ELSE bodyName[selection[i]])

\* body 1 was given the name '?' and body 2 the name 'Part (1)'; body 1 is
\* now selected behind body 2
C12_Witness ==
    /\ dialogOpen
    /\ selection = <<2, 1>>
    /\ typed = <<Question, PartOne>>
    /\ RawNamesNow = <<PartOne, BodyLiteral>>

\* C13: after every completed reaction to a select-all toggle or to a
\* manual selection change, the name-field list holds exactly one field
\* per selected body, in selection order, and the value of field i is the
\* custom-name map's entry for the token of body i when there is one, else
\* the sanitized display name of the body.
C13_FieldsFollowSelection ==
    [][(dialogOpen /\ dialogOpen'
            /\ (selection' # selection \/ selectAll' # selectAll)) =>
          /\ Len(nameFields') = Len(selection')
          /\ \A i \in 1..Len(selection') :
                 /\ nameFields'[i].label = bodyName[selection'[i]]
                 /\ nameFields'[i].value =
                        IF selection'[i] \in DOMAIN custom_names'
                        THEN custom_names'[selection'[i]]
                        ELSE SafeFilename(bodyName[selection'[i]])]_vars

\* body 1 has a custom name and was selected behind bodies 3 and 2
C13_Witness ==
    /\ dialogOpen
    /\ selection = <<3, 2, 1>>
    /\ DOMAIN custom_names = {1}
    /\ nameFields[3].value = PartOne
    /\ nameFields[2].value = Part
    /\ nameFields[1].value = Cylinder1
(***************************************************************************)
(* The re-entrancy guard, checked under SpecReact.                         *)
(***************************************************************************)
\* C11: an input-changed event delivered while another input-changed
\* reaction is running is ignored and not queued: its handler call changes
\* neither the selection, the select-all checkbox, the name-field list,
\* the custom-name map nor the path field, and it starts no reaction, so
\* the running reaction goes on where it was.
C11_NestedEventIgnored ==
    /\ [](nested # "none" => (rpc # "none" /\ updating))
    /\ [][nested # "none" =>
              /\ nested' = "none"
              /\ ignored' = Append(ignored, nested)
              /\ UNCHANGED <<selection, selectAll, nameFields, custom_names,
                             outputPath, browseFolder>>
              /\ UNCHANGED <<changed, rpc, updating>>]_vars

\* the reaction to a click on select-all has selected two bodies, and the
\* event of the changed selection was ignored
C11_Witness ==
    /\ changed.id = "selectAll"
    /\ rpc = "rebuild"
    /\ selection = <<1, 2>>
    /\ nameFields = <<>>
    /\ ignored = <<"bodySelection">>

\* an input of the dialog changes and the dialog stays open
InputChanges ==
    /\ dialogOpen /\ dialogOpen'
    /\ <<selection, selectAll, nameFields, outputPath, browseFolder>>'
           # <<selection, selectAll, nameFields, outputPath, browseFolder>>

\* C18: _updating is released on every exit path of the input-changed
\* reaction (normal completion, the early return with no active design, an
\* exception inside the reaction): whenever no reaction is running the
\* flag is false, and an input change made then starts a reaction.
C18_FlagReleased ==
    /\ [](rpc = "none" => ~updating)
    /\ [][(rpc = "none" /\ InputChanges) =>
              (rpc' = "branch" /\ updating' /\ changed'.id # "none")]_vars

\* the reaction to a click on select-all has left by the early return of
\* line 190, with no design active, and the flag is released
C18_Witness ==
    /\ exitPath = "return"
    /\ rpc = "none"
    /\ ~updating
    /\ selectAll
    /\ selection = <<>>
    /\ nBodies = 2
(***************************************************************************)
(* The registration of the command, checked under SpecAddIn.               *)
(***************************************************************************)
\* after stop nothing with CMD_ID is registered and _handlers is empty
NothingRegistered == cmdDefs = 0 /\ controls = 0 /\ handlers = 0

\* C17 as stated: for any sequence of run and stop calls, after each run
\* exactly one command definition and exactly one toolbar control with
\* CMD_ID are registered, and after each stop neither the control nor the
\* command definition is registered and the handler list is empty.
C17_OneRegistration ==
    /\ lastCall = "run" => (cmdDefs = 1 /\ controls = 1)
    /\ lastCall = "stop" => NothingRegistered

\* C17 amended: for any sequence of run and stop calls in a host that has
\* the add-ins panel, after each run exactly one command definition and
\* exactly one toolbar control with CMD_ID are registered, and after each
\* stop neither is registered and the handler list is empty; in a host
\* without the panel a run leaves one command definition and no control,
\* and a stop leaves nothing.
C17_OneRegistrationWithPanel ==
    /\ (lastCall = "run" /\ panelPresent) => (cmdDefs = 1 /\ controls = 1)
    /\ (lastCall = "run" /\ ~panelPresent) => (cmdDefs = 1 /\ controls = 0)
    /\ lastCall = "run" => handlers >= (IF panelPresent THEN 1 ELSE 0)
    /\ lastCall = "stop" => NothingRegistered

\* a run has found the registration of an earlier session, and one
\* definition and one control are registered
C17_Witness ==
    /\ lastCall = "run"
    /\ staleFound
    /\ cmdDefs = 1
    /\ controls = 1
    /\ handlers = 1
====
